---- MODULE Spec2Model ----
(***************************************************************************)
(* Model of pkg/config/config.go: the parsers of K8sConfig                  *)
(* (ProcessPrivilegedRepos, ProcessGroupBindings, ProcessLabels,            *)
(* ProcessSecretInjections) and AminoConfig.Parse.                          *)
(*                                                                          *)
(* A Go string is a sequence of one-character strings, so that              *)
(* strings.Split is computed character by character.  A Go map is a record  *)
(* [isNil, m]: isNil distinguishes the nil map from make(map...), m is the  *)
(* function from keys to values.                                            *)
(***************************************************************************)
EXTENDS Integers, Sequences, FiniteSets, TLC

VARIABLES
    kc,       \* the K8sConfig aggregate: GroupBindings, PrivilegedRepoWhitelist, SecretInjections, Labels
    a,        \* the AminoConfig: three raw strings and three decoded maps
    arg,      \* the string argument of the call under way (repostr, gbstr, labelsStr, injstr)
    pc,       \* position of the call: "start", "loop", "get", "done"
    ret,      \* the error value the call returned (kind "none" until it returns)
    idx,      \* ProcessSecretInjections: 1-based position of the range loop
    getLog    \* the SecretFetcher's record of the Get calls it served

vars == <<kc, a, arg, pc, ret, idx, getLog>>

----------------------------------------------------------------------------
\* Bounds of the model.

MaxLabelsLen == 7
MaxBindingsLen == 7
MaxReposLen == 7
MaxInjLen == 7

\* Characters the inputs are drawn from.
KVAlphabet == {"a", "b", "=", ","}
RepoAlphabet == {"a", "b", "/", ","}

Strings(alphabet, n) == UNION {[1..k -> alphabet] : k \in 0..n}

----------------------------------------------------------------------------
\* Go values.

NilMap == [isNil |-> TRUE, m |-> [k \in {} |-> <<>>]]

\* make(map[string]...)
MakeMap == [isNil |-> FALSE, m |-> [k \in {} |-> <<>>]]

\* MapSet with the bug "an existing key keeps its first value".
MapSetKeepFirst(mp, key, value) ==
    [isNil |-> FALSE,
     m |-> [k \in (DOMAIN mp.m) \cup {key} |->
              IF k \in DOMAIN mp.m THEN mp.m[k] ELSE value]]

\* m[key] = value
MapSet(mp, key, value) ==
    [isNil |-> FALSE,
     m |-> [k \in (DOMAIN mp.m) \cup {key} |-> IF k = key THEN value ELSE mp.m[k]]]

\* the nil error
ErrNil == [kind |-> "nil"]

\* no value returned yet
NoReturn == [kind |-> "none"]

\* First index of character sep in s, 0 when absent (strings.Index).
RECURSIVE IndexFrom(_, _, _)
IndexFrom(s, sep, i) ==
    IF i > Len(s) THEN 0
    ELSE IF s[i] = sep THEN i
    ELSE IndexFrom(s, sep, i + 1)

\* strings.Split(s, sep) for a one-character separator: every substring
\* between separators, empty ones included; never an empty result.
RECURSIVE Split(_, _)
Split(s, sep) ==
    LET i == IndexFrom(s, sep, 1) IN
    IF i = 0 THEN <<s>>
    ELSE <<SubSeq(s, 1, i - 1)>> \o Split(SubSeq(s, i + 1, Len(s)), sep)

----------------------------------------------------------------------------
\* K8sConfig.ProcessPrivilegedRepos

\* The range loop over the whitelist from position n on; the offset reported
\* is the 0-based range index.
RECURSIVE ReposLoop(_, _)
ReposLoop(whitelist, n) ==
    IF n > Len(whitelist) THEN ErrNil
    ELSE LET pr == whitelist[n]
             rsl == Split(pr, "/")
         IN IF Len(rsl) # 2
            THEN [kind |-> "malformed repo", offset |-> n - 1, text |-> pr]
            ELSE ReposLoop(whitelist, n + 1)

\* ReposResult with the bug "a token is stored only once it is validated".
RECURSIVE ValidPrefix(_, _)
ValidPrefix(whitelist, n) ==
    IF n > Len(whitelist) \/ Len(Split(whitelist[n], "/")) # 2 THEN <<>>
    ELSE <<whitelist[n]>> \o ValidPrefix(whitelist, n + 1)

ReposResultValidatedOnly(repostr) ==
    [PrivilegedRepoWhitelist |-> ValidPrefix(Split(repostr, ","), 1),
     ret |-> ReposLoop(Split(repostr, ","), 1)]

\* Line 66 to the return: the new whitelist and the error.
ReposResult(repostr) ==
    [PrivilegedRepoWhitelist |-> Split(repostr, ","),
     ret |-> ReposLoop(Split(repostr, ","), 1)]

ProcessPrivilegedRepos ==
    /\ pc = "start"
    /\ LET r == ReposResult(arg) IN
        /\ kc' = [kc EXCEPT !.PrivilegedRepoWhitelist = r.PrivilegedRepoWhitelist]
        /\ ret' = r.ret
    /\ pc' = "done"
    /\ UNCHANGED <<a, arg, idx, getLog>>

----------------------------------------------------------------------------
\* K8sConfig.ProcessGroupBindings

\* GroupBindingsLoop with the bug "the empty-part check of lines 86-88 is
\* missing".
RECURSIVE GroupBindingsLoopNoEmptyCheck(_, _, _)
GroupBindingsLoopNoEmptyCheck(entries, n, mp) ==
    IF n > Len(entries) THEN [GroupBindings |-> mp, ret |-> ErrNil]
    ELSE LET gb == entries[n]
             gbsl == Split(gb, "=")
         IN IF gb = <<>> THEN GroupBindingsLoopNoEmptyCheck(entries, n + 1, mp)
            ELSE IF Len(gbsl) # 2
            THEN [GroupBindings |-> mp,
                  ret |-> [kind |-> "malformed group binding", offset |-> n - 1,
                           text |-> gb]]
            ELSE GroupBindingsLoopNoEmptyCheck(entries, n + 1,
                                               MapSet(mp, gbsl[1], gbsl[2]))

\* The range loop over the comma-split entries from position n on, with
\* GroupBindings = mp so far.
RECURSIVE GroupBindingsLoop(_, _, _)
GroupBindingsLoop(entries, n, mp) ==
    IF n > Len(entries) THEN [GroupBindings |-> mp, ret |-> ErrNil]
    ELSE LET gb == entries[n]
             gbsl == Split(gb, "=")
         IN IF gb = <<>> THEN GroupBindingsLoop(entries, n + 1, mp)
            ELSE IF Len(gbsl) # 2
            THEN [GroupBindings |-> mp,
                  ret |-> [kind |-> "malformed group binding", offset |-> n - 1,
                           text |-> gb]]
            ELSE IF Len(gbsl[1]) = 0 \/ Len(gbsl[2]) = 0
            THEN [GroupBindings |-> mp,
                  ret |-> [kind |-> "empty binding", offset |-> n - 1, text |-> gb]]
            ELSE GroupBindingsLoop(entries, n + 1, MapSet(mp, gbsl[1], gbsl[2]))

ProcessGroupBindings ==
    /\ pc = "start"
    /\ LET r == GroupBindingsLoop(Split(arg, ","), 1, MakeMap) IN
        /\ kc' = [kc EXCEPT !.GroupBindings = r.GroupBindings]
        /\ ret' = r.ret
    /\ pc' = "done"
    /\ UNCHANGED <<a, arg, idx, getLog>>

----------------------------------------------------------------------------
\* K8sConfig.ProcessLabels

\* LabelsLoop with the bug "an empty entry is skipped", the stance of
\* ProcessGroupBindings.
RECURSIVE LabelsLoopSkipEmpty(_, _, _, _)
LabelsLoopSkipEmpty(labels, n, mp, labelsStr) ==
    IF n > Len(labels) THEN [Labels |-> mp, ret |-> ErrNil]
    ELSE LET labelStr == labels[n]
             keyValPair == Split(labelStr, "=")
         IN IF labelStr = <<>>
            THEN LabelsLoopSkipEmpty(labels, n + 1, mp, labelsStr)
            ELSE IF Len(keyValPair) # 2
            THEN [Labels |-> mp,
                  ret |-> [kind |-> "malformed label", labelStr |-> labelStr,
                           labelsStr |-> labelsStr]]
            ELSE LabelsLoopSkipEmpty(labels, n + 1,
                            MapSet(mp, keyValPair[1], keyValPair[2]), labelsStr)

\* The range loop over labels from position n on, with Labels = mp so far.
RECURSIVE LabelsLoop(_, _, _, _)
LabelsLoop(labels, n, mp, labelsStr) ==
    IF n > Len(labels) THEN [Labels |-> mp, ret |-> ErrNil]
    ELSE LET labelStr == labels[n]
             keyValPair == Split(labelStr, "=")
         IN IF Len(keyValPair) # 2
            THEN [Labels |-> mp,
                  ret |-> [kind |-> "malformed label", labelStr |-> labelStr,
                           labelsStr |-> labelsStr]]
            ELSE LabelsLoop(labels, n + 1,
                            MapSet(mp, keyValPair[1], keyValPair[2]), labelsStr)

\* LabelsResult with the bug "Labels is not re-made before the loop".
LabelsResultNoReset(labelsStr) ==
    LabelsLoop(Split(labelsStr, ","), 1, kc.Labels, labelsStr)

\* Line 98 to the return: the new Labels and the error.
LabelsResult(labelsStr) ==
    LET labels == Split(labelsStr, ",") IN
    IF Len(labels) = 0
    THEN [Labels |-> MakeMap, ret |-> [kind |-> "at least one label should be provided"]]
    ELSE LabelsLoop(labels, 1, MakeMap, labelsStr)

ProcessLabels ==
    /\ pc = "start"
    /\ LET r == LabelsResult(arg) IN
        /\ kc' = [kc EXCEPT !.Labels = r.Labels]
        /\ ret' = r.ret
    /\ pc' = "done"
    /\ UNCHANGED <<a, arg, idx, getLog>>

----------------------------------------------------------------------------
\* K8sConfig.ProcessSecretInjections and the SecretFetcher it is given

\* The zero K8sSecret: nil Data, empty Type.
ZeroSecret == [Data |-> NilMap, Type |-> ""]

\* Byte strings a fetcher returns: a secret record with base64 data, an empty
\* object, a record whose data is not base64, and text that is not JSON.
PayloadOpaque == "{\"data\":{\"k\":\"dg==\"},\"type\":\"opaque\"}"
PayloadEmptyObject == "{}"
PayloadNotBase64 == "{\"data\":{\"k\":\"v\"},\"type\":\"opaque\"}"
PayloadNotJSON == "potato"
Payloads == {PayloadOpaque, PayloadEmptyObject, PayloadNotBase64, PayloadNotJSON}

\* json.Unmarshal(val, &secret) into a fresh K8sSecret: Data is []byte per
\* key, so its JSON strings are base64-decoded ("dg==" is the byte "v").
UnmarshalSecret(val) ==
    CASE val = PayloadOpaque ->
           [ok |-> TRUE,
            secret |-> [Data |-> [isNil |-> FALSE, m |-> [k \in {"k"} |-> "v"]],
                        Type |-> "opaque"]]
      [] val = PayloadEmptyObject -> [ok |-> TRUE, secret |-> ZeroSecret]
      [] OTHER -> [ok |-> FALSE, secret |-> ZeroSecret]

\* What one Get call may return: an error, or bytes.
GetOutcomes ==
    {[pending |-> FALSE, err |-> TRUE, val |-> ""]} \cup
    {[pending |-> FALSE, err |-> FALSE, val |-> p] : p \in Payloads}

\* A Get call that has not returned yet.
PendingOutcome == [pending |-> TRUE, err |-> FALSE, val |-> ""]

\* IterStep with the bug "the empty-part check of lines 130-132 is missing".
IterStepNoEmptyCheck(entries, i) ==
    IF i > Len(entries) THEN [act |-> "return", ret |-> ErrNil]
    ELSE LET sstr == entries[i]
             ssl == Split(sstr, "=")
         IN IF sstr = <<>> THEN [act |-> "continue", ret |-> NoReturn]
            ELSE IF Len(ssl) # 2
            THEN [act |-> "return",
                  ret |-> [kind |-> "malformed secret injection", offset |-> i - 1,
                           text |-> sstr]]
            ELSE [act |-> "get", ret |-> NoReturn]

\* One iteration of the range loop at 1-based position i, up to the Get call
\* (lines 122-133): return, continue, or call sf.Get(ssl[1]).
IterStep(entries, i) ==
    IF i > Len(entries) THEN [act |-> "return", ret |-> ErrNil]
    ELSE LET sstr == entries[i]
             ssl == Split(sstr, "=")
         IN IF sstr = <<>> THEN [act |-> "continue", ret |-> NoReturn]
            ELSE IF Len(ssl) # 2
            THEN [act |-> "return",
                  ret |-> [kind |-> "malformed secret injection", offset |-> i - 1,
                           text |-> sstr]]
            ELSE IF Len(ssl[1]) = 0 \/ Len(ssl[2]) = 0
            THEN [act |-> "return",
                  ret |-> [kind |-> "empty secret injection", offset |-> i - 1,
                           text |-> sstr]]
            ELSE [act |-> "get", ret |-> NoReturn]

\* AfterGet with the bug "the error of Get is not returned: the zero secret
\* is stored and the loop goes on".
AfterGetStoreOnFetchError(id, out) ==
    IF out.err
    THEN [act |-> "store", ret |-> NoReturn, secret |-> ZeroSecret]
    ELSE IF ~UnmarshalSecret(out.val).ok
    THEN [act |-> "return",
          ret |-> [kind |-> "error unmarshaling secret for id", id |-> id],
          secret |-> ZeroSecret]
    ELSE [act |-> "store", ret |-> NoReturn, secret |-> UnmarshalSecret(out.val).secret]

\* The rest of the iteration once Get(id) returned out (lines 134-141).
AfterGet(id, out) ==
    IF out.err
    THEN [act |-> "return",
          ret |-> [kind |-> "error fetching secret for id", id |-> id],
          secret |-> ZeroSecret]
    ELSE IF ~UnmarshalSecret(out.val).ok
    THEN [act |-> "return",
          ret |-> [kind |-> "error unmarshaling secret for id", id |-> id],
          secret |-> ZeroSecret]
    ELSE [act |-> "store", ret |-> NoReturn, secret |-> UnmarshalSecret(out.val).secret]

\* Line 121: the call starts by re-making SecretInjections.
SecretInjectionsBegin ==
    /\ pc = "start"
    /\ kc' = [kc EXCEPT !.SecretInjections = MakeMap]
    /\ idx' = 1
    /\ pc' = "loop"
    /\ UNCHANGED <<a, arg, ret, getLog>>

\* Lines 122-133: one iteration up to the blocking call of sf.Get, or the
\* return that ends the loop.
SecretInjectionsIterate ==
    /\ pc = "loop"
    /\ LET entries == Split(arg, ",")
           r == IterStep(entries, idx)
       IN CASE r.act = "return" ->
                 /\ ret' = r.ret
                 /\ pc' = "done"
                 /\ UNCHANGED <<idx, getLog>>
            [] r.act = "continue" ->
                 /\ idx' = idx + 1
                 /\ UNCHANGED <<pc, ret, getLog>>
            [] r.act = "get" ->
                 /\ getLog' = Append(getLog,
                                      [id |-> Split(entries[idx], "=")[2],
                                       out |-> PendingOutcome])
                 /\ pc' = "get"
                 /\ UNCHANGED <<idx, ret>>
    /\ UNCHANGED <<kc, a, arg>>

\* Lines 133-141: sf.Get returns, and the iteration ends with a return or
\* with the decoded secret stored under ssl[0].
SecretInjectionsGetReturns ==
    /\ pc = "get"
    /\ \E out \in GetOutcomes :
         LET ssl == Split(Split(arg, ",")[idx], "=")
             r == AfterGet(ssl[2], out)
         IN /\ getLog' = [getLog EXCEPT ![Len(getLog)].out = out]
            /\ CASE r.act = "return" ->
                     /\ ret' = r.ret
                     /\ pc' = "done"
                     /\ UNCHANGED <<kc, idx>>
                 [] r.act = "store" ->
                     /\ kc' = [kc EXCEPT !.SecretInjections =
                                   MapSet(kc.SecretInjections, ssl[1], r.secret)]
                     /\ idx' = idx + 1
                     /\ pc' = "loop"
                     /\ UNCHANGED ret
    /\ UNCHANGED <<a, arg>>

----------------------------------------------------------------------------
\* AminoConfig.Parse

\* Raw JSON texts of the three fields: an object with one pair, the empty
\* object, null, an array, a truncated object, and the empty string.
RawJSON == {"{\"a\":\"b\"}", "{}", "null", "[]", "{", ""}

\* json.Unmarshal([]byte(raw), &mp) for mp a map[string]string: an object is
\* merged into the map (made if nil), null sets the map to nil, anything
\* else is an error that leaves the map alone.
UnmarshalMap(raw, mp) ==
    CASE raw = "{\"a\":\"b\"}" -> [ok |-> TRUE, mp |-> MapSet(mp, "a", "b")]
      [] raw = "{}" -> [ok |-> TRUE, mp |-> [isNil |-> FALSE, m |-> mp.m]]
      [] raw = "null" -> [ok |-> TRUE, mp |-> NilMap]
      [] OTHER -> [ok |-> FALSE, mp |-> mp]

\* ParseResult with the bug "every field is decoded, then the first error is
\* returned".
ParseResultDecodeAll(cfg) ==
    LET c == UnmarshalMap(cfg.HelmChartToRepoRaw, cfg.HelmChartToRepo)
        d == UnmarshalMap(cfg.AminoDeploymentToRepoRaw, cfg.AminoDeploymentToRepo)
        j == UnmarshalMap(cfg.AminoJobToRepoRaw, cfg.AminoJobToRepo)
        all == [cfg EXCEPT !.HelmChartToRepo = c.mp, !.AminoDeploymentToRepo = d.mp,
                           !.AminoJobToRepo = j.mp]
    IN IF ~c.ok THEN [a |-> all, ret |-> [kind |-> "error unmarshaling HelmChartToRepo"]]
       ELSE IF ~d.ok
       THEN [a |-> all, ret |-> [kind |-> "error unmarshaling AminoDeploymentToRepo"]]
       ELSE IF ~j.ok
       THEN [a |-> all, ret |-> [kind |-> "error unmarshaling AminoJobToRepo"]]
       ELSE [a |-> all, ret |-> ErrNil]

\* Lines 156-165: the three decodes in order, each returning on error.
ParseResult(cfg) ==
    LET c == UnmarshalMap(cfg.HelmChartToRepoRaw, cfg.HelmChartToRepo)
        a1 == [cfg EXCEPT !.HelmChartToRepo = c.mp]
        d == UnmarshalMap(cfg.AminoDeploymentToRepoRaw, cfg.AminoDeploymentToRepo)
        a2 == [a1 EXCEPT !.AminoDeploymentToRepo = d.mp]
        j == UnmarshalMap(cfg.AminoJobToRepoRaw, cfg.AminoJobToRepo)
        a3 == [a2 EXCEPT !.AminoJobToRepo = j.mp]
    IN IF ~c.ok THEN [a |-> a1, ret |-> [kind |-> "error unmarshaling HelmChartToRepo"]]
       ELSE IF ~d.ok
       THEN [a |-> a2, ret |-> [kind |-> "error unmarshaling AminoDeploymentToRepo"]]
       ELSE IF ~j.ok
       THEN [a |-> a3, ret |-> [kind |-> "error unmarshaling AminoJobToRepo"]]
       ELSE [a |-> a3, ret |-> ErrNil]

Parse ==
    /\ pc = "start"
    /\ LET r == ParseResult(a) IN
        /\ a' = r.a
        /\ ret' = r.ret
    /\ pc' = "done"
    /\ UNCHANGED <<kc, arg, idx, getLog>>

----------------------------------------------------------------------------
\* States of the aggregate before a call: the zero value, and values left by
\* earlier loads.

ZeroK8sConfig ==
    [GroupBindings |-> NilMap, PrivilegedRepoWhitelist |-> <<>>,
     SecretInjections |-> NilMap, Labels |-> NilMap]

ZeroAminoConfig ==
    [HelmChartToRepoRaw |-> "", HelmChartToRepo |-> NilMap,
     AminoDeploymentToRepoRaw |-> "", AminoDeploymentToRepo |-> NilMap,
     AminoJobToRepoRaw |-> "", AminoJobToRepo |-> NilMap]

\* Earlier content of a string-to-string field: nil, empty, or one pair.
PriorMaps == {NilMap, MakeMap, MapSet(MakeMap, <<"a">>, <<"b", "b">>)}

InitLabels ==
    /\ \E p \in PriorMaps : kc = [ZeroK8sConfig EXCEPT !.Labels = p]
    /\ a = ZeroAminoConfig
    /\ arg \in Strings(KVAlphabet, MaxLabelsLen)
    /\ pc = "start"
    /\ ret = NoReturn
    /\ idx = 0
    /\ getLog = <<>>

SpecLabels == InitLabels /\ [][ProcessLabels]_vars

InitGroupBindings ==
    /\ \E p \in PriorMaps : kc = [ZeroK8sConfig EXCEPT !.GroupBindings = p]
    /\ a = ZeroAminoConfig
    /\ arg \in Strings(KVAlphabet, MaxBindingsLen)
    /\ pc = "start"
    /\ ret = NoReturn
    /\ idx = 0
    /\ getLog = <<>>

SpecGroupBindings == InitGroupBindings /\ [][ProcessGroupBindings]_vars

\* Earlier content of the whitelist: nil, or one repository.
PriorWhitelists == {<<>>, <<(<<"b", "/", "b">>)>>}

InitRepos ==
    /\ \E p \in PriorWhitelists :
          kc = [ZeroK8sConfig EXCEPT !.PrivilegedRepoWhitelist = p]
    /\ a = ZeroAminoConfig
    /\ arg \in Strings(RepoAlphabet, MaxReposLen)
    /\ pc = "start"
    /\ ret = NoReturn
    /\ idx = 0
    /\ getLog = <<>>

SpecRepos == InitRepos /\ [][ProcessPrivilegedRepos]_vars

\* Earlier content of SecretInjections: nil, or one record.
PriorSecretMaps == {NilMap, MapSet(MakeMap, <<"a">>, ZeroSecret)}

InitSecrets ==
    /\ \E p \in PriorSecretMaps : kc = [ZeroK8sConfig EXCEPT !.SecretInjections = p]
    /\ a = ZeroAminoConfig
    /\ arg \in Strings(KVAlphabet, MaxInjLen)
    /\ pc = "start"
    /\ ret = NoReturn
    /\ idx = 0
    /\ getLog = <<>>

NextSecrets ==
    \/ SecretInjectionsBegin
    \/ SecretInjectionsIterate
    \/ SecretInjectionsGetReturns

SpecSecrets == InitSecrets /\ [][NextSecrets]_vars

\* Earlier content of a decoded AminoConfig map: nil, or one pair.
PriorRepoMaps == {NilMap, MapSet(MakeMap, "z", "r")}

InitAmino ==
    /\ kc = ZeroK8sConfig
    /\ \E rc \in RawJSON, rd \in RawJSON, rj \in RawJSON :
       \E mc \in PriorRepoMaps, md \in PriorRepoMaps, mj \in PriorRepoMaps :
          a = [HelmChartToRepoRaw |-> rc, HelmChartToRepo |-> mc,
               AminoDeploymentToRepoRaw |-> rd, AminoDeploymentToRepo |-> md,
               AminoJobToRepoRaw |-> rj, AminoJobToRepo |-> mj]
    /\ arg = <<>>
    /\ pc = "start"
    /\ ret = NoReturn
    /\ idx = 0
    /\ getLog = <<>>

SpecAmino == InitAmino /\ [][Parse]_vars

----------------------------------------------------------------------------
\* Vocabulary of the properties, defined on the characters of the input and
\* not through Split.

\* Positions of character c in s.
Positions(s, c) == {i \in 1..Len(s) : s[i] = c}

\* Number of c-separated fields of s.
NumFields(s, c) == Cardinality(Positions(s, c)) + 1

\* Position of the k-th c in s; 0 for k = 0, Len(s) + 1 past the last one.
SepAt(s, c, k) ==
    IF k = 0 THEN 0
    ELSE IF k > Cardinality(Positions(s, c)) THEN Len(s) + 1
    ELSE CHOOSE p \in Positions(s, c) :
            Cardinality({q \in Positions(s, c) : q <= p}) = k

\* The j-th c-separated field of s, j in 1..NumFields(s, c).
Field(s, c, j) == SubSeq(s, SepAt(s, c, j - 1) + 1, SepAt(s, c, j) - 1)

\* An entry with exactly one '=' has a key and a value.
OneEq(e) == Cardinality(Positions(e, "=")) = 1
KeyOf(e) == SubSeq(e, 1, SepAt(e, "=", 1) - 1)
ValueOf(e) == SubSeq(e, SepAt(e, "=", 1) + 1, Len(e))

\* The first n entries of s applied in input order, a later entry
\* overwriting an earlier one with the same key.
LastWriteWins(s, n) ==
    [k \in {KeyOf(Field(s, ",", j)) : j \in 1..n} |->
        LET last == CHOOSE j \in 1..n :
                       /\ KeyOf(Field(s, ",", j)) = k
                       /\ \A j2 \in (j + 1)..n : KeyOf(Field(s, ",", j2)) # k
        IN ValueOf(Field(s, ",", last))]

\* Index of the first entry of s that P rejects, NumFields + 1 when none.
FirstBad(s, P(_)) ==
    LET bad == {j \in 1..NumFields(s, ",") : ~P(Field(s, ",", j))} IN
    IF bad = {} THEN NumFields(s, ",") + 1
    ELSE CHOOSE j \in bad : \A j2 \in bad : j <= j2

----------------------------------------------------------------------------
\* C1: whenever ProcessLabels returns no error, whatever the input and the
\* previous Labels, Labels contains at least one entry.
C1_LabelsNonEmptyOnSuccess ==
    (pc = "done" /\ ret = ErrNil) =>
        (~kc.Labels.isNil /\ DOMAIN kc.Labels.m # {})

\* A successful call that stored two labels.
C1_Witness ==
    /\ pc = "done" /\ ret = ErrNil
    /\ arg = <<"b", "=", "a", ",", "a", "=", "a">>
    /\ Cardinality(DOMAIN kc.Labels.m) = 2

\* C2: for every list whose entries each hold exactly one '=', ProcessLabels
\* succeeds and Labels is exactly the entries applied in input order, a later
\* duplicate key overwriting the earlier value; nothing from before the call
\* remains.
C2_LabelsExactLastWriteWins ==
    (pc = "done" /\ \A j \in 1..NumFields(arg, ",") : OneEq(Field(arg, ",", j))) =>
        /\ ret = ErrNil
        /\ ~kc.Labels.isNil
        /\ kc.Labels.m = LastWriteWins(arg, NumFields(arg, ","))

\* A duplicate key was overwritten by the later entry.
C2_Witness ==
    /\ pc = "done"
    /\ arg = <<"a", "=", "a", ",", "a", "=", "b">>
    /\ ret = ErrNil
    /\ kc.Labels.m[<<"a">>] = <<"b">>

\* C3: ProcessLabels fails with a malformed-entry error carrying the offending
\* fragment whenever some entry does not split on '=' into exactly two
\* non-empty parts, so no empty key and no empty value is ever inserted.
TwoNonEmptyParts(e) == OneEq(e) /\ KeyOf(e) # <<>> /\ ValueOf(e) # <<>>

C3_EmptyPartsRejected ==
    pc = "done" =>
        /\ (FirstBad(arg, TwoNonEmptyParts) <= NumFields(arg, ",")) =>
              /\ ret.kind = "malformed label"
              /\ ret.labelStr = Field(arg, ",", FirstBad(arg, TwoNonEmptyParts))
        /\ \A k \in DOMAIN kc.Labels.m : k # <<>> /\ kc.Labels.m[k] # <<>>

SkippedOrBinding(e) == e = <<>> \/ TwoNonEmptyParts(e)

C5_GroupBindingsSkipEmptyNonEmptyParts ==
    pc = "done" =>
        /\ (ret = ErrNil) <=>
              (\A j \in 1..NumFields(arg, ",") : SkippedOrBinding(Field(arg, ",", j)))
        /\ (ret = ErrNil) =>
              /\ ~kc.GroupBindings.isNil
              /\ DOMAIN kc.GroupBindings.m =
                    {KeyOf(Field(arg, ",", j)) :
                        j \in {i \in 1..NumFields(arg, ",") : Field(arg, ",", i) # <<>>}}
              /\ \A k \in DOMAIN kc.GroupBindings.m :
                    k # <<>> /\ kc.GroupBindings.m[k] # <<>>
        /\ (arg = <<>>) => (ret = ErrNil /\ kc.GroupBindings = MakeMap)

\* A successful call skipped two empty entries around one binding.
C5_Witness ==
    /\ pc = "done"
    /\ arg = <<",", "a", "=", "b", ",">>
    /\ ret = ErrNil
    /\ kc.GroupBindings = MapSet(MakeMap, <<"a">>, <<"b">>)

\* C6: after a successful ProcessPrivilegedRepos every whitelist entry is
\* <owner>/<repo>: exactly one '/', owner and repo both non-empty.
OwnerRepo(e) ==
    /\ Cardinality(Positions(e, "/")) = 1
    /\ SepAt(e, "/", 1) > 1
    /\ SepAt(e, "/", 1) < Len(e)

C6_WhitelistOwnerAndRepoPresent ==
    (pc = "done" /\ ret = ErrNil) =>
        \A n \in 1..Len(kc.PrivilegedRepoWhitelist) :
            OwnerRepo(kc.PrivilegedRepoWhitelist[n])

\* C10: ProcessPrivilegedRepos stores every comma-split token of its input,
\* in order and empty ones included, before validating; after a failing call
\* the whitelist still holds all of them, and the error's offset is the
\* 0-based index of the first token that does not hold exactly one '/'.
OneSlash(e) == Cardinality(Positions(e, "/")) = 1

C10_WhitelistHoldsEveryToken ==
    pc = "done" =>
        /\ kc.PrivilegedRepoWhitelist =
              [j \in 1..NumFields(arg, ",") |-> Field(arg, ",", j)]
        /\ (ret = ErrNil) <=> (FirstBad(arg, OneSlash) > NumFields(arg, ","))
        /\ (ret # ErrNil) =>
              /\ ret.kind = "malformed repo"
              /\ ret.offset = FirstBad(arg, OneSlash) - 1
              /\ ret.text = Field(arg, ",", FirstBad(arg, OneSlash))

\* A call failed on its second token, an empty one, and the whitelist holds
\* that token and the one after it.
C10_Witness ==
    /\ pc = "done"
    /\ arg = <<"a", "/", "b", ",", ",", "b">>
    /\ ret = [kind |-> "malformed repo", offset |-> 1, text |-> <<>>]
    /\ kc.PrivilegedRepoWhitelist = <<(<<"a", "/", "b">>), <<>>, <<"b">>>>

\* Vocabulary of C7 and C8.  An entry is fetched when it is non-empty and
\* every entry before it, itself included, is empty or has exactly one '='
\* with a non-empty name and a non-empty identifier.
FetchedEntries(s) ==
    LET bad == FirstBad(s, SkippedOrBinding) IN
    {j \in 1..NumFields(s, ",") : j < bad /\ Field(s, ",", j) # <<>>}

\* The n-th fetched entry of s, in input order.
FetchedEntry(s, n) ==
    LET fetched == FetchedEntries(s) IN
    Field(s, ",", CHOOSE j \in fetched : Cardinality({i \in fetched : i <= j}) = n)

\* A served Get call whose bytes decoded.
Succeeded(call) ==
    ~call.out.pending /\ ~call.out.err /\ UnmarshalSecret(call.out.val).ok

\* C7: ProcessSecretInjections calls Get once per non-empty entry with a
\* non-empty name and identifier, one at a time in input order, and stops at
\* the first failing entry (malformed, empty field, fetch error, decode
\* error): no Get for any entry after it, and no Get repeated.
C7_GetOncePerEntryInOrderFailFast ==
    LET n == Len(getLog)
        all == Cardinality(FetchedEntries(arg))
    IN /\ n <= all
       /\ \A k \in 1..n : getLog[k].id = ValueOf(FetchedEntry(arg, k))
       /\ \A k \in 1..(n - 1) : Succeeded(getLog[k])
       /\ (pc = "get") <=> (n >= 1 /\ getLog[n].out.pending)
       /\ (pc = "done") =>
             /\ (n < all) => (n >= 1 /\ ~Succeeded(getLog[n]))
             /\ (n >= 1 /\ ~Succeeded(getLog[n])) =>
                   ret.kind \in {"error fetching secret for id",
                                 "error unmarshaling secret for id"}
             /\ (ret = ErrNil) =>
                   /\ n = all
                   /\ FirstBad(arg, SkippedOrBinding) > NumFields(arg, ",")

\* The first of two entries failed to fetch, and Get was called for it alone.
C7_Witness ==
    /\ pc = "done"
    /\ arg = <<"a", "=", "a", ",", "b", "=", "b">>
    /\ Len(getLog) = 1
    /\ getLog[1].id = <<"a">>
    /\ getLog[1].out.err

\* C8: after a ProcessSecretInjections call Get was called for fetched
\* entries only, every key of SecretInjections is non-empty and every value
\* is the decoded result of a Get that succeeded for a non-empty identifier
\* during the call; when Get returns an error the
\* call returns a fetch error naming that identifier, nothing is stored for
\* that entry or a later one, and the records of the earlier entries remain
\* (last write wins on a duplicate name).
C8_SecretInjectionsFromSuccessfulGets ==
    (pc = "done") =>
        LET stored == {n \in 1..Len(getLog) : Succeeded(getLog[n])}
            name(n) == KeyOf(FetchedEntry(arg, n))
        IN /\ Len(getLog) <= Cardinality(FetchedEntries(arg))
           /\ ~kc.SecretInjections.isNil
           /\ DOMAIN kc.SecretInjections.m = {name(n) : n \in stored}
           /\ \A k \in DOMAIN kc.SecretInjections.m :
                 /\ k # <<>>
                 /\ LET last == CHOOSE n \in stored :
                                   /\ name(n) = k
                                   /\ \A n2 \in stored : name(n2) = k => n2 <= n
                    IN /\ getLog[last].id # <<>>
                       /\ kc.SecretInjections.m[k] =
                             UnmarshalSecret(getLog[last].out.val).secret
           /\ \A n \in 1..Len(getLog) :
                 getLog[n].out.err =>
                    /\ n = Len(getLog)
                    /\ ret = [kind |-> "error fetching secret for id",
                              id |-> getLog[n].id]

\* The second entry, a duplicate name, failed to fetch: the record of the
\* first entry remains.
C8_Witness ==
    /\ pc = "done"
    /\ arg = <<"a", "=", "a", ",", "a", "=", "b">>
    /\ ret = [kind |-> "error fetching secret for id", id |-> <<"b">>]
    /\ getLog[1].out.val = PayloadOpaque
    /\ kc.SecretInjections = MapSet(MakeMap, <<"a">>, UnmarshalSecret(PayloadOpaque).secret)

\* C9: Parse decodes chart, deployment, job in that order and fails fast: the
\* error names the first field whose decode fails, every field after it keeps
\* its decoded map unchanged, the fields before it are decoded, and Parse
\* succeeds only if all three decodes succeed.
C9_ParseOrderedFailFast ==
    [][(pc = "start" /\ pc' = "done") =>
        LET c == UnmarshalMap(a.HelmChartToRepoRaw, a.HelmChartToRepo)
            d == UnmarshalMap(a.AminoDeploymentToRepoRaw, a.AminoDeploymentToRepo)
            j == UnmarshalMap(a.AminoJobToRepoRaw, a.AminoJobToRepo)
        IN /\ (ret' = ErrNil) <=> (c.ok /\ d.ok /\ j.ok)
           /\ (~c.ok) =>
                 /\ ret' = [kind |-> "error unmarshaling HelmChartToRepo"]
                 /\ a'.AminoDeploymentToRepo = a.AminoDeploymentToRepo
                 /\ a'.AminoJobToRepo = a.AminoJobToRepo
           /\ (c.ok /\ ~d.ok) =>
                 /\ ret' = [kind |-> "error unmarshaling AminoDeploymentToRepo"]
                 /\ a'.HelmChartToRepo = c.mp
                 /\ a'.AminoJobToRepo = a.AminoJobToRepo
           /\ (c.ok /\ d.ok /\ ~j.ok) =>
                 /\ ret' = [kind |-> "error unmarshaling AminoJobToRepo"]
                 /\ a'.HelmChartToRepo = c.mp
                 /\ a'.AminoDeploymentToRepo = d.mp
           /\ (c.ok /\ d.ok /\ j.ok) =>
                 /\ a'.HelmChartToRepo = c.mp
                 /\ a'.AminoDeploymentToRepo = d.mp
                 /\ a'.AminoJobToRepo = j.mp
    ]_vars

\* Parse failed on the deployment field: the chart map is decoded, and the
\* job map still holds its earlier pair although its raw text is decodable.
C9_Witness ==
    /\ pc = "done"
    /\ ret = [kind |-> "error unmarshaling AminoDeploymentToRepo"]
    /\ a.HelmChartToRepoRaw = "{\"a\":\"b\"}"
    /\ a.HelmChartToRepo = MapSet(MapSet(MakeMap, "z", "r"), "a", "b")
    /\ a.AminoJobToRepoRaw = "{\"a\":\"b\"}"
    /\ a.AminoJobToRepo = MapSet(MakeMap, "z", "r")

====
